---- MODULE Spec2Model ----
(***************************************************************************)
(* Model of the n19 output streams (Core/Stream.hpp): OStream,             *)
(* BufferedOStream<size_> and NullOStream, with the Sink (sys::IODevice)   *)
(* recorded as a log of the requests it receives.                          *)
(***************************************************************************)
EXTENDS Integers, Sequences, FiniteSets, TLC

(***************************************************************************)
(* Bounds of the model.                                                    *)
(***************************************************************************)
\* the template argument size_ of BufferedOStream<size_> (its capacity N)
len_ == 8
\* payloads have 0 .. len_ + MaxExtra bytes
MaxExtra == 2
\* number of calls made on the streams in one behaviour
MaxCalls == 4
\* the integers -IntBound .. IntBound and the addresses 0 .. AddrBound are
\* converted to text
IntBound == 1100
AddrBound == 4200

(***************************************************************************)
(* Constants of the class.                                                 *)
(***************************************************************************)
begin_ == 0
end_ == len_ - 1

\* size_t has 64 bits and its arithmetic wraps modulo 2^64.  A size_t value
\* is held as its four 16-bit limbs, least significant first:
\* <<x1, x2, x3, x4>> is x1 + 2^16 * x2 + 2^32 * x3 + 2^48 * x4.
SizeBits == 64
Limb == 2 ^ 16
SizeLimbs == SizeBits \div 16

\* the size_t with value n, for 0 <= n < 2^31
SizeT(n) == <<n % Limb, (n \div Limb) % Limb, 0, 0>>

\* the value of a size_t below 2^31
SizeNat(x) == x[1] + Limb * x[2]

\* a - b in size_t
SizeSub(a, b) ==
  LET d1 == a[1] - b[1]
      d2 == a[2] - b[2] - (IF d1 < 0 THEN 1 ELSE 0)
      d3 == a[3] - b[3] - (IF d2 < 0 THEN 1 ELSE 0)
      d4 == a[4] - b[4] - (IF d3 < 0 THEN 1 ELSE 0)
  IN  <<d1 % Limb, d2 % Limb, d3 % Limb, d4 % Limb>>

\* a + b in size_t
SizeAdd(a, b) ==
  LET s1 == a[1] + b[1]
      s2 == a[2] + b[2] + (s1 \div Limb)
      s3 == a[3] + b[3] + (s2 \div Limb)
      s4 == a[4] + b[4] + (s3 \div Limb)
  IN  <<s1 % Limb, s2 % Limb, s3 % Limb, s4 % Limb>>

\* a < b and a <= b in size_t
SizeLess(a, b) ==
  \E i \in 1 .. SizeLimbs :
     a[i] < b[i] /\ \A j \in i + 1 .. SizeLimbs : a[j] = b[j]
SizeLeq(a, b) == a = b \/ SizeLess(a, b)

Byte == 0 .. 255
Devices == {"stdout", "stderr"}
\* the handle of a default-constructed sys::IODevice
NoDevice == "none"
Streams == {1, 2}

(***************************************************************************)
(* The Sink: sys::IODevice::write and sys::IODevice::flush_handle.  A Sink *)
(* is the sequence of requests it has received.                            *)
(***************************************************************************)
WriteReq(bytes) == [op |-> "write", bytes |-> bytes]
SyncReq == [op |-> "sync", bytes |-> <<>>]

IODevice_write(out, bytes) == Append(out, WriteReq(bytes))
IODevice_flush_handle(out) == Append(out, SyncReq)

(***************************************************************************)
(* A stream object under execution: st.buff_ and st.curr_ are the members  *)
(* of the object, st.out is the Sink its fd_ refers to, st.ok is FALSE     *)
(* once an ASSERT has failed (the process has aborted and nothing further  *)
(* executes).                                                              *)
(***************************************************************************)
Abort(st) == [st EXCEPT !.ok = FALSE]

\* Bytes{&buff_[begin_], curr_}
Occupied(st) == [i \in 1 .. st.curr_ |-> st.buff_[begin_ + i - 1]]

\* std::memcpy(&buff_[curr_], buff.data(), buff.size_bytes())
Memcpy(b, at, buff) ==
  [i \in 0 .. len_ - 1 |->
     IF i >= at /\ i < at + Len(buff) THEN buff[i - at + 1] ELSE b[i]]

\* to_buffer with the cursor advanced one byte too far
to_buffer_OffByOne(st, buff) ==
  IF ~st.ok THEN st
  ELSE IF ~(st.curr_ <= len_) THEN Abort(st)
  ELSE IF ~SizeLeq(SizeT(Len(buff)), SizeSub(SizeT(len_), SizeT(st.curr_))) THEN Abort(st)
  ELSE IF ~(Len(buff) # 0) THEN Abort(st)
  ELSE [st EXCEPT !.buff_ = Memcpy(st.buff_, st.curr_, buff),
                  !.curr_ = SizeNat(SizeAdd(SizeAdd(SizeT(st.curr_), SizeT(Len(buff))),
                                            SizeT(1)))]

\* to_buffer copying to the start of the buffer instead of to the cursor
to_buffer_AtBegin(st, buff) ==
  IF ~st.ok THEN st
  ELSE IF ~(st.curr_ <= len_) THEN Abort(st)
  ELSE IF ~SizeLeq(SizeT(Len(buff)), SizeSub(SizeT(len_), SizeT(st.curr_))) THEN Abort(st)
  ELSE IF ~(Len(buff) # 0) THEN Abort(st)
  ELSE [st EXCEPT !.buff_ = Memcpy(st.buff_, begin_, buff),
                  !.curr_ = SizeNat(SizeAdd(SizeT(st.curr_), SizeT(Len(buff))))]

to_buffer(st, buff) ==
  IF ~st.ok THEN st
  ELSE IF ~(st.curr_ <= len_) THEN Abort(st)
  ELSE IF ~SizeLeq(SizeT(Len(buff)), SizeSub(SizeT(len_), SizeT(st.curr_))) THEN Abort(st)
  ELSE IF ~(Len(buff) # 0) THEN Abort(st)
  ELSE [st EXCEPT !.buff_ = Memcpy(st.buff_, st.curr_, buff),
                  !.curr_ = SizeNat(SizeAdd(SizeT(st.curr_), SizeT(Len(buff))))]

\* flush that leaves the cursor where it was
flush_NoReset(st) ==
  IF ~st.ok THEN st
  ELSE IF ~(st.curr_ <= len_) THEN Abort(st)
  ELSE IF st.curr_ > begin_
    THEN [st EXCEPT !.out = IODevice_flush_handle(
                               IODevice_write(st.out, Occupied(st)))]
    ELSE [st EXCEPT !.out = IODevice_flush_handle(st.out)]

\* flush that writes the occupied region whether or not it is empty
flush_AlwaysWrite(st) ==
  IF ~st.ok THEN st
  ELSE IF ~(st.curr_ <= len_) THEN Abort(st)
  ELSE [st EXCEPT !.out = IODevice_flush_handle(
                             IODevice_write(st.out, Occupied(st))),
                  !.curr_ = begin_]

\* flush that keeps the buffered bytes when the Sink write fails, to send
\* them again; st.plan[k] tells whether the k-th Sink request of the call
\* succeeds and st.base is the length of the Sink log when the call began
flush_KeepOnFailure(st) ==
  IF ~st.ok THEN st
  ELSE IF ~(st.curr_ <= len_) THEN Abort(st)
  ELSE IF st.curr_ > begin_
    THEN IF st.plan[Len(st.out) - st.base + 1]
           THEN [st EXCEPT !.out = IODevice_flush_handle(
                                      IODevice_write(st.out, Occupied(st))),
                           !.curr_ = begin_]
           ELSE [st EXCEPT !.out = IODevice_flush_handle(
                                      IODevice_write(st.out, Occupied(st)))]
    ELSE [st EXCEPT !.out = IODevice_flush_handle(st.out)]

\* flush that synchronizes before it writes
flush_SyncFirst(st) ==
  IF ~st.ok THEN st
  ELSE IF ~(st.curr_ <= len_) THEN Abort(st)
  ELSE IF st.curr_ > begin_
    THEN [st EXCEPT !.out = IODevice_write(
                               IODevice_flush_handle(st.out), Occupied(st)),
                    !.curr_ = begin_]
    ELSE [st EXCEPT !.out = IODevice_flush_handle(st.out)]

flush(st) ==
  IF ~st.ok THEN st
  ELSE IF ~(st.curr_ <= len_) THEN Abort(st)
  ELSE IF st.curr_ > begin_
    THEN [st EXCEPT !.out = IODevice_flush_handle(
                               IODevice_write(st.out, Occupied(st))),
                    !.curr_ = begin_]
    ELSE [st EXCEPT !.out = IODevice_flush_handle(st.out)]

\* fd_.write(buff) of the bypass branch
Direct(st, buff) ==
  IF ~st.ok THEN st ELSE [st EXCEPT !.out = IODevice_write(st.out, buff)]

\* write whose bypass branch does not flush first
write_BypassNoFlush(st, buff) ==
  LET remaining == SizeSub(SizeT(len_), SizeT(st.curr_))
      size_new  == Len(buff)
      no_space  == SizeLess(remaining, SizeT(size_new))
  IN  IF ~st.ok THEN st
      ELSE IF buff = <<>> THEN st
      ELSE IF size_new > len_ THEN Direct(st, buff)
      ELSE IF no_space THEN to_buffer(flush(st), buff)
      ELSE to_buffer(st, buff)

\* write whose bypass branch flushes after the direct write
write_BypassFlushLast(st, buff) ==
  LET remaining == SizeSub(SizeT(len_), SizeT(st.curr_))
      size_new  == Len(buff)
      no_space  == SizeLess(remaining, SizeT(size_new))
  IN  IF ~st.ok THEN st
      ELSE IF buff = <<>> THEN st
      ELSE IF size_new > len_ THEN flush(Direct(st, buff))
      ELSE IF no_space THEN to_buffer(flush(st), buff)
      ELSE to_buffer(st, buff)

\* write whose no-space branch does not flush
write_NoSpaceNoFlush(st, buff) ==
  LET remaining == SizeSub(SizeT(len_), SizeT(st.curr_))
      size_new  == Len(buff)
      no_space  == SizeLess(remaining, SizeT(size_new))
  IN  IF ~st.ok THEN st
      ELSE IF buff = <<>> THEN st
      ELSE IF size_new > len_ THEN Direct(flush(st), buff)
      ELSE IF no_space THEN to_buffer(st, buff)
      ELSE to_buffer(st, buff)

\* write without the early return for an empty payload
write_NoEmptyCheck(st, buff) ==
  LET remaining == SizeSub(SizeT(len_), SizeT(st.curr_))
      size_new  == Len(buff)
      no_space  == SizeLess(remaining, SizeT(size_new))
  IN  IF ~st.ok THEN st
      ELSE IF size_new > len_ THEN Direct(flush(st), buff)
      ELSE IF no_space THEN to_buffer(flush(st), buff)
      ELSE to_buffer(st, buff)

\* write that flushes as soon as the payload fills the buffer exactly
write_FlushWhenFull(st, buff) ==
  LET remaining == SizeSub(SizeT(len_), SizeT(st.curr_))
      size_new  == Len(buff)
      no_space  == SizeLeq(remaining, SizeT(size_new))
  IN  IF ~st.ok THEN st
      ELSE IF buff = <<>> THEN st
      ELSE IF size_new > len_ THEN Direct(flush(st), buff)
      ELSE IF no_space THEN to_buffer(flush(st), buff)
      ELSE to_buffer(st, buff)

write(st, buff) ==
  LET remaining == SizeSub(SizeT(len_), SizeT(st.curr_))
      size_new  == Len(buff)
      no_space  == SizeLess(remaining, SizeT(size_new))
  IN  IF ~st.ok THEN st
      ELSE IF buff = <<>> THEN st
      ELSE IF size_new > len_ THEN Direct(flush(st), buff)
      ELSE IF no_space THEN to_buffer(flush(st), buff)
      ELSE to_buffer(st, buff)

(***************************************************************************)
(* The base class and the null stream.                                     *)
(***************************************************************************)
OStream_write(st, buff) ==
  IF ~st.ok THEN st ELSE [st EXCEPT !.out = IODevice_write(st.out, buff)]

OStream_flush(st) ==
  IF ~st.ok THEN st ELSE [st EXCEPT !.out = IODevice_flush_handle(st.out)]

\* a NullOStream that does not override write
NullOStream_write_Inherited(st, buff) == OStream_write(st, buff)

NullOStream_write(st, buff) == st

\* a NullOStream that does not override flush
NullOStream_flush_Inherited(st) == OStream_flush(st)

NullOStream_flush(st) == st

\* the virtual calls this->write(buff) and this->flush() on an object whose
\* dynamic type is k
vwrite(k, st, buff) ==
  CASE k = "BufferedOStream" -> write(st, buff)
    [] k = "NullOStream"     -> NullOStream_write(st, buff)
    [] OTHER                 -> OStream_write(st, buff)

vflush(k, st) ==
  CASE k = "BufferedOStream" -> flush(st)
    [] k = "NullOStream"     -> NullOStream_flush(st)
    [] OTHER                 -> OStream_flush(st)

(***************************************************************************)
(* The formatting operators of OStream.                                    *)
(***************************************************************************)
\* std::string_view{p} of a zero-terminated array: the characters before
\* the first zero
RECURSIVE CStr(_)
CStr(a) ==
  IF a = <<>> \/ Head(a) = 0 THEN <<>> ELSE <<Head(a)>> \o CStr(Tail(a))

DigitChar(d) == IF d < 10 THEN 48 + d ELSE 97 + (d - 10)

RECURSIVE Digits(_, _)
Digits(n, base) ==
  IF n < base THEN <<DigitChar(n)>>
  ELSE Append(Digits(n \div base, base), DigitChar(n % base))

\* the characters std::to_chars produces for an integer
Text(v, base) ==
  IF v < 0 THEN <<45>> \o Digits(0 - v, base) ELSE Digits(v, base)

\* std::to_chars(buff, buff + sizeof(buff) - 1, v, base) on the zeroed
\* 40-byte conversion buffer, followed by buff[39] = '\0'
to_chars(v, base) ==
  LET t == Text(v, base)
  IN  IF Len(t) > 39
        THEN [ec |-> FALSE, buff |-> [i \in 1 .. 40 |-> 0]]
        ELSE [ec |-> TRUE,
              buff |-> [i \in 1 .. 40 |-> IF i <= Len(t) THEN t[i] ELSE 0]]

\* operator<<(const std::string_view&)
put_string_view(k, st, str) ==
  IF str # <<>> THEN vwrite(k, st, str) ELSE st

\* operator<<(const T value) for a character type
put_Character(k, st, value) ==
  put_string_view(k, st, CStr(<<value, 0>>))

\* operator<<(const T value) that writes the whole conversion buffer
put_IntOrFloat_WholeBuffer(k, st, value) ==
  LET r == to_chars(value, 10)
  IN  IF r.ec THEN vwrite(k, st, r.buff) ELSE st

\* operator<<(const T value) for an integer type
put_IntOrFloat(k, st, value) ==
  LET r == to_chars(value, 10)
  IN  IF r.ec THEN put_string_view(k, st, CStr(r.buff)) ELSE st

\* operator<<(const T value) for a pointer type; value is the address
put_Pointer(k, st, value) ==
  LET r == to_chars(value, 16)
  IN  IF r.ec THEN put_string_view(k, st, CStr(r.buff)) ELSE st

\* operator<<(const Flush_&)
put_Flush(k, st) == vflush(k, st)

\* operator<<(const Endl_&) that flushes before it adds the new line
put_Endl_FlushFirst(k, st) == put_Character(k, vflush(k, st), 10)

\* operator<<(const Endl_&)
put_Endl(k, st) == vflush(k, put_Character(k, st, 10))

(***************************************************************************)
(* State.                                                                  *)
(***************************************************************************)
VARIABLES
  kind,     \* kind[s]: the dynamic type of stream object s, "none" before it exists
  fd_,      \* fd_[s]: the Sink handle of stream s
  buff_,    \* buff_[s]: the buffer of stream s, indexed 0 .. len_ - 1
  curr_,    \* curr_[s]: the cursor of stream s
  sink,     \* sink[d]: the requests Sink d has received, oldest first
  aborted,  \* an ASSERT has failed
  calls,    \* history: the calls made so far, oldest first, each with its
            \* argument, the number of flush() executions it caused and the
            \* length of its Sink's log when it returned
  pre,      \* history: buff_, curr_ and sink as they were before the last call
  lock,     \* the callers' mutex: 0 when free, else the thread that holds it
  tpc,      \* tpc[t]: where caller thread t is between lock and unlock
  turns,    \* history: the threads that made the calls, in call order
  failed,   \* failed[d]: the positions in sink[d] of the requests that failed
  maybe,    \* maybe[m]: the Maybe<T> object m
  was       \* history: maybe as it was before the last operation, and the
            \* value that operation returned

vars == <<kind, fd_, buff_, curr_, sink, aborted, calls, pre,
          lock, tpc, turns, failed, maybe, was>>

Threads == {1, 2}
\* Maybe objects 1 and 2 are Maybe<int>, 3 and 4 are Maybe<bool>
Maybes == {1, 2, 3, 4}

\* a Maybe<T> object: has_value_ is the member, stored tells whether a T
\* object is constructed in value_, v is that object's value (0 when there is
\* none or when it has been moved from), exists tells whether the Maybe
\* itself has been constructed; a bool is held as 0 (false) or 1 (true)
NoMaybe == [exists |-> FALSE, has_value_ |-> FALSE, stored |-> FALSE, v |-> 0]

\* one stream used by one caller, every Sink request succeeding, no Maybe
NoCallers ==
  /\ lock = 0
  /\ tpc = [t \in Threads |-> "idle"]
  /\ turns = <<>>
NoFailures == failed = [d \in Devices \cup {NoDevice} |-> {}]
NoMaybes ==
  /\ maybe = [m \in Maybes |-> NoMaybe]
  /\ was = [objs |-> [m \in Maybes |-> NoMaybe], ret |-> 0]

\* Buffer_ buff_{}
ZeroBuffer == [i \in 0 .. len_ - 1 |-> 0]

Snapshot == [buff_ |-> buff_, curr_ |-> curr_, sink |-> sink]

\* BufferedOStream<size_>::from(dev); from_stdout() and from_stderr() are
\* from() of the two standard devices.  Stream 2 does not exist yet.
Init ==
  /\ \E dev \in Devices :
       fd_ = [s \in Streams |-> IF s = 1 THEN dev ELSE NoDevice]
  /\ kind = [s \in Streams |-> IF s = 1 THEN "BufferedOStream" ELSE "none"]
  /\ buff_ = [s \in Streams |-> ZeroBuffer]
  /\ curr_ = [s \in Streams |-> begin_]
  /\ sink = [d \in Devices \cup {NoDevice} |-> <<>>]
  /\ aborted = FALSE
  /\ calls = <<>>
  /\ pre = [buff_ |-> [s \in Streams |-> ZeroBuffer],
            curr_ |-> [s \in Streams |-> begin_],
            sink |-> [d \in Devices \cup {NoDevice} |-> <<>>]]
  /\ NoCallers /\ NoFailures /\ NoMaybes

\* the stream object s as the member functions see it
This(s) ==
  [buff_ |-> buff_[s], curr_ |-> curr_[s], out |-> sink[fd_[s]], ok |-> TRUE]

\* number of synchronize requests in a log; flush() issues exactly one
Syncs(out) == Cardinality({i \in 1 .. Len(out) : out[i].op = "sync"})

\* the effect on the stream, the Sink and the history of a member function
\* of s that has returned st
Effect(s, op, arg, st) ==
  /\ buff_' = [buff_ EXCEPT ![s] = st.buff_]
  /\ curr_' = [curr_ EXCEPT ![s] = st.curr_]
  /\ sink' = [sink EXCEPT ![fd_[s]] = st.out]
  /\ aborted' = ~st.ok
  /\ calls' = Append(calls, [op |-> op, s |-> s, arg |-> arg,
                              flushes |-> Syncs(st.out) - Syncs(sink[fd_[s]]),
                              len |-> Len(st.out)])
  /\ pre' = Snapshot
  /\ UNCHANGED <<kind, fd_>>

\* the state after a member function of s has returned st
Return(s, op, arg, st) ==
  /\ Effect(s, op, arg, st)
  /\ UNCHANGED <<lock, tpc, turns, failed, maybe, was>>

CanCall(s) == ~aborted /\ kind[s] # "none" /\ Len(calls) < MaxCalls

\* number of bytes passed to the streams so far
RECURSIVE BytesIn(_)
BytesIn(cs) ==
  IF cs = <<>> THEN 0 ELSE Len(Head(cs).arg) + BytesIn(Tail(cs))

\* the payloads the model writes: n bytes that no earlier payload contains
Payload(n) == [i \in 1 .. n |-> 65 + ((BytesIn(calls) + i - 1) % 191)]

PayloadSizes == 0 .. len_ + MaxExtra
\* the sizes used where two streams or the formatting operators multiply
\* the choices: an empty, a short, a nearly full and an oversized payload
FewSizes == {0, 1, len_ - 1, len_ + 1}

\* s.write(bytes)
Write(s, sizes) ==
  /\ CanCall(s)
  /\ \E n \in sizes :
       Return(s, "write", Payload(n), vwrite(kind[s], This(s), Payload(n)))

\* s.flush()
Flush(s) ==
  /\ CanCall(s)
  /\ Return(s, "flush", <<>>, vflush(kind[s], This(s)))

Next == Write(1, PayloadSizes) \/ Flush(1)

Spec == Init /\ [][Next]_vars

(***************************************************************************)
(* Copying a stream.  BufferedOStream declares no copy constructor, so     *)
(* the implicit one copies the members one by one: fd_, buff_ and curr_.   *)
(* The same holds for the implicit copy assignment.                        *)
(***************************************************************************)
CopyOf(k, f, b, c) == [kind |-> k, fd_ |-> f, buff_ |-> b, curr_ |-> c]

\* BufferedOStream<size_> copy(original): stream 2 is made as a copy of
\* stream 1
Copy ==
  /\ ~aborted /\ kind[1] # "none" /\ kind[2] = "none"
  /\ Len(calls) < MaxCalls
  /\ LET c == CopyOf(kind[1], fd_[1], buff_[1], curr_[1])
     IN  /\ kind' = [kind EXCEPT ![2] = c.kind]
         /\ fd_' = [fd_ EXCEPT ![2] = c.fd_]
         /\ buff_' = [buff_ EXCEPT ![2] = c.buff_]
         /\ curr_' = [curr_ EXCEPT ![2] = c.curr_]
  /\ calls' = Append(calls, [op |-> "copy", s |-> 2, arg |-> <<>>,
                              flushes |-> 0, len |-> Len(sink[fd_[1]])])
  /\ pre' = Snapshot
  /\ UNCHANGED <<sink, aborted, lock, tpc, turns, failed, maybe, was>>

\* s = t: BufferedOStream declares no copy assignment either, so the
\* implicit one assigns the members one by one; what s had buffered is
\* overwritten
Assign(s, t) ==
  /\ ~aborted /\ kind[s] # "none" /\ kind[t] = kind[s]
  /\ Len(calls) < MaxCalls
  /\ LET c == CopyOf(kind[t], fd_[t], buff_[t], curr_[t])
     IN  /\ fd_' = [fd_ EXCEPT ![s] = c.fd_]
         /\ buff_' = [buff_ EXCEPT ![s] = c.buff_]
         /\ curr_' = [curr_ EXCEPT ![s] = c.curr_]
  /\ calls' = Append(calls, [op |-> "assign", s |-> s, arg |-> <<>>,
                              flushes |-> 0, len |-> Len(sink[fd_[t]])])
  /\ pre' = Snapshot
  /\ UNCHANGED <<kind, sink, aborted, lock, tpc, turns, failed, maybe, was>>

NextCopy ==
  \/ Copy
  \/ \E s, t \in Streams : Assign(s, t)
  \/ \E s \in Streams : Write(s, FewSizes)
  \/ \E s \in Streams : Flush(s)

SpecCopy == Init /\ [][NextCopy]_vars

(***************************************************************************)
(* A NullOStream driven through write, flush and the formatting operators. *)
(* NullOStream has no factory: its fd_ is the default-constructed handle.  *)
(***************************************************************************)
InitNull ==
  /\ fd_ = [s \in Streams |-> NoDevice]
  /\ kind = [s \in Streams |-> IF s = 1 THEN "NullOStream" ELSE "none"]
  /\ buff_ = [s \in Streams |-> ZeroBuffer]
  /\ curr_ = [s \in Streams |-> begin_]
  /\ sink = [d \in Devices \cup {NoDevice} |-> <<>>]
  /\ aborted = FALSE
  /\ calls = <<>>
  /\ pre = [buff_ |-> [s \in Streams |-> ZeroBuffer],
            curr_ |-> [s \in Streams |-> begin_],
            sink |-> [d \in Devices \cup {NoDevice} |-> <<>>]]
  /\ NoCallers /\ NoFailures /\ NoMaybes

\* the values handed to the formatting operators
SomeChars == {0, 10}
SomeInts == {-42, 0}
SomeAddresses == {171}

\* s << Flush
PutFlush(s) ==
  /\ CanCall(s)
  /\ Return(s, "<<Flush", <<>>, put_Flush(kind[s], This(s)))

\* s << Endl
PutEndl(s) ==
  /\ CanCall(s)
  /\ Return(s, "<<Endl", <<>>, put_Endl(kind[s], This(s)))

\* s << c for a char c
PutCharacter(s) ==
  /\ CanCall(s)
  /\ \E c \in SomeChars :
       Return(s, "<<char", <<c>>, put_Character(kind[s], This(s), c))

\* s << v for an int v
PutIntOrFloat(s) ==
  /\ CanCall(s)
  /\ \E v \in SomeInts :
       Return(s, "<<int", <<v>>, put_IntOrFloat(kind[s], This(s), v))

\* s << p for a pointer p with address a
PutPointer(s) ==
  /\ CanCall(s)
  /\ \E a \in SomeAddresses :
       Return(s, "<<ptr", <<a>>, put_Pointer(kind[s], This(s), a))

\* s << str for a std::string_view str
PutStringView(s) ==
  /\ CanCall(s)
  /\ \E n \in {0, 2} :
       Return(s, "<<str", Payload(n), put_string_view(kind[s], This(s), Payload(n)))

NextOps ==
  \/ Write(1, FewSizes)
  \/ Flush(1)
  \/ PutFlush(1)
  \/ PutEndl(1)
  \/ PutCharacter(1)
  \/ PutIntOrFloat(1)
  \/ PutPointer(1)
  \/ PutStringView(1)

SpecNull == InitNull /\ [][NextOps]_vars

(***************************************************************************)
(* Observations on the history.                                            *)
(***************************************************************************)
Last == calls[Len(calls)]

RECURSIVE Concat(_)
Concat(ss) == IF ss = <<>> THEN <<>> ELSE Head(ss) \o Concat(Tail(ss))

IsPrefix(p, q) == Len(p) <= Len(q) /\ SubSeq(q, 1, Len(p)) = p

\* the bytes a Sink has received, in order
RECURSIVE SinkBytes(_)
SinkBytes(out) ==
  IF out = <<>> THEN <<>> ELSE Head(out).bytes \o SinkBytes(Tail(out))

SinkWrites(out) == SelectSeq(out, LAMBDA r : r.op = "write")

IsWrite(c, s) == c.op = "write" /\ c.s = s

\* the payloads passed to s.write by the calls cs, in order
RECURSIVE Payloads(_, _)
Payloads(cs, s) ==
  IF cs = <<>> THEN <<>>
  ELSE (IF IsWrite(Head(cs), s) THEN <<Head(cs).arg>> ELSE <<>>)
       \o Payloads(Tail(cs), s)

\* all bytes passed to s.write so far
Input(s) == Concat(Payloads(calls, s))

\* the payloads passed to s.write since flush() last executed on s; a write
\* that itself executes flush() counts as written after that flush
RECURSIVE SinceFlush(_, _)
SinceFlush(cs, s) ==
  IF cs = <<>> THEN <<>>
  ELSE LET c    == cs[Len(cs)]
           rest == SubSeq(cs, 1, Len(cs) - 1)
           mine == IF IsWrite(c, s) THEN <<c.arg>> ELSE <<>>
       IN  IF c.s # s THEN SinceFlush(rest, s)
           ELSE IF c.flushes > 0 THEN mine
           ELSE SinceFlush(rest, s) \o mine

Out(s) == sink[fd_[s]]
PreOut(s) == pre.sink[fd_[s]]
\* buff_[0, curr_) of stream s now and before the last call
Held(s) == [i \in 1 .. curr_[s] |-> buff_[s][begin_ + i - 1]]
PreHeld(s) == [i \in 1 .. pre.curr_[s] |-> pre.buff_[s][begin_ + i - 1]]

\* the requests one execution of flush() adds to the Sink of s, from the
\* state before the last call
PreFlushReqs(s) ==
  IF pre.curr_[s] > 0 THEN <<WriteReq(PreHeld(s)), SyncReq>> ELSE <<SyncReq>>

OthersSilent(s) == \A d \in (Devices \cup {NoDevice}) \ {fd_[s]} : sink[d] = <<>>

(***************************************************************************)
(* Claims about BufferedOStream.                                           *)
(***************************************************************************)

\* C1: after any sequence of write and flush calls that ends with a flush,
\* the bytes the Sink has received are exactly the concatenation, in order,
\* of all payloads passed to write; nothing is lost, duplicated or reordered.
C1_NoLossAfterFinalFlush ==
  (calls # <<>> /\ Last.op = "flush") =>
     /\ ~aborted
     /\ SinkBytes(Out(1)) = Input(1)
     /\ OthersSilent(1)

C1_Witness ==
  /\ calls # <<>> /\ Last.op = "flush"
  /\ \E i \in 1 .. Len(calls) : IsWrite(calls[i], 1) /\ Len(calls[i].arg) > len_
  /\ \E i \in 1 .. Len(calls) : IsWrite(calls[i], 1) /\ Len(calls[i].arg) = len_
  /\ \E i \in 1 .. Len(calls) :
        IsWrite(calls[i], 1) /\ Len(calls[i].arg) \in 1 .. len_ - 1
  /\ SinkBytes(Out(1)) = Input(1)

\* C2: in every reachable state the cursor satisfies 0 <= curr_ <= N.
C2_CursorInRange ==
  \A s \in Streams : curr_[s] >= 0 /\ curr_[s] <= len_

C2_Witness ==
  /\ calls # <<>> /\ Last.op = "write"
  /\ pre.curr_[1] > 0
  /\ curr_[1] = len_

\* C3 as stated: between calls, buff_[0, curr_) is the concatenation of the
\* bytes written since the last execution of flush().
C3_Original ==
  Held(1) = Concat(SinceFlush(calls, 1))

\* C3 amended: between calls, buff_[0, curr_) is the concatenation of the
\* payloads of at most N bytes written since the last execution of flush();
\* a payload of more than N bytes goes to the Sink and not into the buffer.
C3_BufferHoldsUnflushed ==
  Held(1) = Concat(SelectSeq(SinceFlush(calls, 1), LAMBDA p : Len(p) <= len_))

C3_Witness ==
  /\ Len(calls) >= 3
  /\ IsWrite(calls[Len(calls) - 2], 1)
  /\ Len(calls[Len(calls) - 2].arg) > len_
  /\ IsWrite(calls[Len(calls) - 1], 1) /\ calls[Len(calls) - 1].flushes = 0
  /\ IsWrite(Last, 1) /\ Last.flushes = 0
  /\ Held(1) = calls[Len(calls) - 1].arg \o Last.arg
  /\ curr_[1] > Len(Last.arg)
  /\ Last.arg # <<>>

\* C4: an oversized payload B reaches the Sink as one request of its own,
\* after every byte written before it (so all of A precedes B); a payload C
\* of at most N bytes written right after B is not in the Sink until a later
\* flush() executes, and then it is at the start of the request after B.
C4_OrderAcrossBypass ==
  \A j \in 1 .. Len(calls) :
     (IsWrite(calls[j], 1) /\ Len(calls[j].arg) > len_) =>
        LET k == calls[j].len
        IN  /\ k >= 1 /\ k <= Len(Out(1))
            /\ Out(1)[k] = WriteReq(calls[j].arg)
            /\ SinkBytes(SubSeq(Out(1), 1, k - 1))
                 = Concat(Payloads(SubSeq(calls, 1, j - 1), 1))
            /\ (j < Len(calls) /\ IsWrite(calls[j + 1], 1)
                /\ Len(calls[j + 1].arg) \in 1 .. len_) =>
                  /\ calls[j + 1].len = k
                  /\ IF \E m \in j + 2 .. Len(calls) : calls[m].flushes > 0
                       THEN /\ Len(Out(1)) > k
                            /\ Out(1)[k + 1].op = "write"
                            /\ IsPrefix(calls[j + 1].arg, Out(1)[k + 1].bytes)
                       ELSE Len(Out(1)) = k

C4_Witness ==
  /\ Len(calls) = 4
  /\ IsWrite(calls[1], 1) /\ Len(calls[1].arg) \in 1 .. len_
  /\ IsWrite(calls[2], 1) /\ Len(calls[2].arg) > len_
  /\ IsWrite(calls[3], 1) /\ Len(calls[3].arg) \in 1 .. len_
  /\ calls[4].op = "flush"
  /\ SinkWrites(Out(1))
       = <<WriteReq(calls[1].arg), WriteReq(calls[2].arg), WriteReq(calls[3].arg)>>

\* C6: a flush() that directly follows a flush() issues no Sink write and
\* leaves the cursor at 0 and the buffer as it was; it adds one synchronize
\* request and nothing else, so the bytes at the Sink are those after the
\* first flush.
C6_SecondFlushOnlySyncs ==
  (Len(calls) >= 2 /\ Last.op = "flush" /\ calls[Len(calls) - 1].op = "flush") =>
     /\ ~aborted
     /\ Out(1) = Append(PreOut(1), SyncReq)
     /\ SinkBytes(Out(1)) = SinkBytes(PreOut(1))
     /\ pre.curr_[1] = 0 /\ curr_[1] = 0
     /\ buff_[1] = pre.buff_[1]

C6_Witness ==
  /\ Len(calls) >= 3
  /\ IsWrite(calls[Len(calls) - 2], 1) /\ calls[Len(calls) - 2].arg # <<>>
  /\ calls[Len(calls) - 1].op = "flush"
  /\ Last.op = "flush"
  /\ SinkWrites(Out(1)) # <<>>
  /\ Out(1)[Len(Out(1))] = SyncReq /\ Out(1)[Len(Out(1)) - 1] = SyncReq

\* C7: one flush() with curr_ > 0 issues exactly one Sink write, carrying
\* buff_[0, curr_), and sets curr_ to 0; with curr_ = 0 it issues no Sink
\* write; either way it issues exactly one synchronize request, last.
C7_FlushEffect ==
  (calls # <<>> /\ Last.op = "flush") =>
     /\ ~aborted
     /\ curr_[1] = 0
     /\ buff_[1] = pre.buff_[1]
     /\ IF pre.curr_[1] > 0
          THEN Out(1) = PreOut(1) \o <<WriteReq(PreHeld(1)), SyncReq>>
          ELSE Out(1) = PreOut(1) \o <<SyncReq>>

C7_Witness ==
  /\ calls # <<>> /\ Last.op = "flush"
  /\ pre.curr_[1] > 0
  /\ Len(Out(1)) = Len(PreOut(1)) + 2
  /\ Out(1)[Len(Out(1)) - 1].bytes = PreHeld(1)

\* C8: a write of more than N bytes copies nothing into the buffer: the
\* Sink receives what one flush() of the earlier content issues and then the
\* payload as one request, and curr_ is 0 afterwards; from an empty buffer
\* the payload is the only Sink write of the call.
C8_OversizedBypasses ==
  (calls # <<>> /\ IsWrite(Last, 1) /\ Len(Last.arg) > len_) =>
     /\ ~aborted
     /\ buff_[1] = pre.buff_[1]
     /\ curr_[1] = 0
     /\ Out(1) = PreOut(1) \o PreFlushReqs(1) \o <<WriteReq(Last.arg)>>
     /\ pre.curr_[1] = 0 =>
          SinkWrites(Out(1)) = Append(SinkWrites(PreOut(1)), WriteReq(Last.arg))

C8_Witness ==
  /\ calls # <<>> /\ IsWrite(Last, 1) /\ Len(Last.arg) > len_
  /\ pre.curr_[1] > 0
  /\ curr_[1] = 0
  /\ Out(1)[Len(Out(1))] = WriteReq(Last.arg)

\* C9: a write of 1 .. N bytes that does not fit the free space N - curr_
\* first delivers the old buffer content to the Sink as one write of the old
\* curr_ bytes; afterwards the buffer holds exactly the payload and curr_
\* is its size.  With N = 8, writes of 2, 5 and 3 bytes leave the 7 bytes of
\* the first two in the Sink and the 3 bytes of the third in the buffer.
C9_NoSpaceFlushesThenBuffers ==
  /\ (calls # <<>> /\ IsWrite(Last, 1) /\ Len(Last.arg) \in 1 .. len_
      /\ SizeLess(SizeSub(SizeT(len_), SizeT(pre.curr_[1])),
                                         SizeT(Len(Last.arg)))) =>
        /\ ~aborted
        /\ pre.curr_[1] > 0
        /\ Out(1) = PreOut(1) \o <<WriteReq(PreHeld(1)), SyncReq>>
        /\ SinkWrites(Out(1)) = Append(SinkWrites(PreOut(1)), WriteReq(PreHeld(1)))
        /\ Held(1) = Last.arg
        /\ curr_[1] = Len(Last.arg)
  /\ (len_ = 8 /\ Len(calls) = 3
      /\ \A i \in 1 .. 3 : IsWrite(calls[i], 1)
      /\ Len(calls[1].arg) = 2 /\ Len(calls[2].arg) = 5
      /\ Len(calls[3].arg) = 3) =>
        /\ SinkWrites(Out(1)) = <<WriteReq(<<65, 66, 67, 68, 69, 70, 71>>)>>
        /\ Held(1) = <<72, 73, 74>>
        /\ curr_[1] = 3

C9_Witness ==
  /\ calls # <<>> /\ IsWrite(Last, 1) /\ Len(Last.arg) \in 1 .. len_
  /\ pre.curr_[1] > 0
  /\ pre.curr_[1] + Len(Last.arg) > len_
  /\ SinkWrites(PreOut(1)) = <<>>
  /\ SinkWrites(Out(1)) = <<WriteReq(PreHeld(1))>>
  /\ Held(1) = Last.arg

\* C5 as stated: a copy takes the Sink handle and nothing of the buffer
\* state: it holds none of the original's buffered bytes and its cursor is
\* at the start; afterwards a call on one stream leaves the buffer and the
\* cursor of the other alone.
C5_Original ==
  /\ (calls # <<>> /\ Last.op = "copy") =>
        /\ fd_[2] = fd_[1]
        /\ curr_[2] = begin_
        /\ Held(2) = <<>>
  /\ (calls # <<>> /\ Last.op \in {"write", "flush"}) =>
        \A t \in Streams \ {Last.s} :
           buff_[t] = pre.buff_[t] /\ curr_[t] = pre.curr_[t]

(***************************************************************************)
(* Claims about NullOStream.                                               *)
(***************************************************************************)

\* C10: whatever sequence of write, flush and formatting operators is
\* applied to a NullOStream, no Sink receives a write or a synchronize
\* request and no assertion fails.
C10_NullStreamSilent ==
  /\ \A d \in Devices \cup {NoDevice} : sink[d] = <<>>
  /\ ~aborted
  /\ buff_ = pre.buff_ /\ curr_ = pre.curr_

C10_Witness ==
  /\ Len(calls) >= 4
  /\ \E i \in 1 .. Len(calls) : calls[i].op = "write" /\ Len(calls[i].arg) > len_
  /\ \E i \in 1 .. Len(calls) : calls[i].op = "<<Endl"
  /\ \E i \in 1 .. Len(calls) : calls[i].op = "<<int"
  /\ \E i \in 1 .. Len(calls) : calls[i].op = "flush"
  /\ kind[1] = "NullOStream"
  /\ \A d \in Devices \cup {NoDevice} : sink[d] = <<>>

(***************************************************************************)
(* Destruction.  ~BufferedOStream() and ~OStream() are defaulted: no       *)
(* statement of the class runs, and the object is gone afterwards.         *)
(***************************************************************************)
\* a destructor that flushes the buffer
destroy_Flushing(st) == flush(st)

destroy(st) == st

\* the stream s goes out of scope
Destroy(s) ==
  /\ CanCall(s)
  /\ LET st == destroy(This(s))
     IN  /\ buff_' = [buff_ EXCEPT ![s] = st.buff_]
         /\ curr_' = [curr_ EXCEPT ![s] = st.curr_]
         /\ sink' = [sink EXCEPT ![fd_[s]] = st.out]
         /\ aborted' = ~st.ok
         /\ calls' = Append(calls, [op |-> "destroy", s |-> s, arg |-> <<>>,
                                     flushes |-> Syncs(st.out) - Syncs(sink[fd_[s]]),
                                     len |-> Len(st.out)])
  /\ kind' = [kind EXCEPT ![s] = "none"]
  /\ pre' = Snapshot
  /\ UNCHANGED <<fd_, lock, tpc, turns, failed, maybe, was>>

\* ~IStream(): fd_.flush_handle()
IStream_destroy(out) == IODevice_flush_handle(out)

\* IStream in; the object takes the place of stream 2, its fd_ is the
\* default-constructed handle
IStreamConstruct ==
  /\ ~aborted /\ kind[2] = "none" /\ Len(calls) < MaxCalls
  /\ kind' = [kind EXCEPT ![2] = "IStream"]
  /\ fd_' = [fd_ EXCEPT ![2] = NoDevice]
  /\ calls' = Append(calls, [op |-> "IStream", s |-> 2, arg |-> <<>>,
                              flushes |-> 0, len |-> Len(sink[fd_[1]])])
  /\ pre' = Snapshot
  /\ UNCHANGED <<buff_, curr_, sink, aborted,
                 lock, tpc, turns, failed, maybe, was>>

\* the IStream goes out of scope
IStreamDestroy ==
  /\ ~aborted /\ kind[2] = "IStream" /\ Len(calls) < MaxCalls
  /\ kind' = [kind EXCEPT ![2] = "none"]
  /\ sink' = [sink EXCEPT ![fd_[2]] = IStream_destroy(sink[fd_[2]])]
  /\ calls' = Append(calls, [op |-> "~IStream", s |-> 2, arg |-> <<>>,
                              flushes |-> 0, len |-> Len(sink[fd_[1]])])
  /\ pre' = Snapshot
  /\ UNCHANGED <<fd_, buff_, curr_, aborted,
                 lock, tpc, turns, failed, maybe, was>>

NextLife ==
  \/ Write(1, PayloadSizes) \/ Flush(1) \/ Destroy(1)
  \/ IStreamConstruct \/ IStreamDestroy

SpecLife == Init /\ [][NextLife]_vars

\* length of the Sink log of stream 1 before the i-th call
LenBefore(i) == IF i = 1 THEN 0 ELSE calls[i - 1].len

\* C11: destroying an output stream issues no Sink request, so the bytes
\* still in the buffer at that moment are never delivered; a call adds
\* requests to the Sink of the stream only if it is flush() or a write that
\* executes flush() (the buffer overflows or the payload bypasses it).  The
\* destructor of an IStream sends one synchronize request to its own Sink
\* and no bytes to any.
C11_NoFlushOnDestroy ==
  /\ (calls # <<>> /\ Last.op = "destroy") =>
        /\ ~aborted
        /\ sink = pre.sink
        /\ SinkBytes(Out(1)) \o PreHeld(1) = Input(1)
  /\ (calls # <<>> /\ Last.op = "~IStream") =>
        /\ sink = [pre.sink EXCEPT ![NoDevice] = Append(@, SyncReq)]
        /\ buff_ = pre.buff_ /\ curr_ = pre.curr_
  /\ \A d \in Devices \cup {NoDevice} :
        d # fd_[1] => SinkBytes(sink[d]) = <<>>
  /\ \A i \in 1 .. Len(calls) :
        calls[i].len > LenBefore(i) =>
           \/ calls[i].op = "flush"
           \/ /\ calls[i].op = "write" /\ calls[i].flushes > 0
              /\ Len(calls[i].arg) > 0

C11_Witness ==
  /\ calls # <<>> /\ Last.op = "destroy"
  /\ pre.curr_[1] > 0
  /\ SinkBytes(Out(1)) # <<>>
  /\ SinkBytes(Out(1)) # Input(1)
  /\ kind[1] = "none"

\* C13: write with an empty payload changes neither the cursor nor the
\* buffer and issues no Sink request, whatever the state, a full buffer
\* included.
C13_EmptyWriteNoOp ==
  (calls # <<>> /\ IsWrite(Last, 1) /\ Last.arg = <<>>) =>
     /\ ~aborted
     /\ curr_ = pre.curr_
     /\ buff_ = pre.buff_
     /\ sink = pre.sink

C13_Witness ==
  /\ calls # <<>> /\ IsWrite(Last, 1) /\ Last.arg = <<>>
  /\ pre.curr_[1] = len_
  /\ curr_[1] = len_
  /\ Out(1) = <<>>

\* C17: a write of 1 .. N - curr_ bytes issues no Sink request, copies the
\* payload to buff_[curr_, curr_ + size) and advances curr_ by size, also
\* when size = N - curr_ (N bytes into an empty buffer are buffered); a
\* write adds a Sink write only when size > N - curr_.
C17_FittingWriteBuffers ==
  /\ (calls # <<>> /\ IsWrite(Last, 1)
      /\ Len(Last.arg) >= 1 /\ Len(Last.arg) <= len_ - pre.curr_[1]) =>
        /\ ~aborted
        /\ sink = pre.sink
        /\ curr_[1] = pre.curr_[1] + Len(Last.arg)
        /\ \A i \in 0 .. len_ - 1 :
             buff_[1][i] =
               IF i >= pre.curr_[1] /\ i < pre.curr_[1] + Len(Last.arg)
                 THEN Last.arg[i - pre.curr_[1] + 1]
                 ELSE pre.buff_[1][i]
  /\ (calls # <<>> /\ IsWrite(Last, 1)
      /\ SinkWrites(Out(1)) # SinkWrites(PreOut(1))) =>
        Len(Last.arg) > len_ - pre.curr_[1]

C17_Witness ==
  /\ Len(calls) >= 2 /\ IsWrite(Last, 1)
  /\ pre.curr_[1] > 0
  /\ Len(Last.arg) = len_ - pre.curr_[1]
  /\ curr_[1] = len_
  /\ Out(1) = <<>>
  /\ Held(1) = Input(1)

\* a request that carries a payload of more than N bytes past the buffer
IsBypass(r) ==
  \E i \in 1 .. Len(calls) :
     IsWrite(calls[i], 1) /\ Len(calls[i].arg) > len_ /\ r.bytes = calls[i].arg

\* C19: between calls, the bytes the Sink has received followed by
\* buff_[0, curr_) are the concatenation of all payloads written so far, so
\* the Sink holds a prefix of what was written; a Sink write issued by flush
\* carries 1 .. N bytes and no Sink write is empty.
C19_Conservation ==
  /\ SinkBytes(Out(1)) \o Held(1) = Input(1)
  /\ IsPrefix(SinkBytes(Out(1)), Input(1))
  /\ \A k \in 1 .. Len(Out(1)) :
        Out(1)[k].op = "write" =>
           /\ Len(Out(1)[k].bytes) >= 1
           /\ Len(Out(1)[k].bytes) <= len_ \/ IsBypass(Out(1)[k])

C19_Witness ==
  /\ Len(calls) >= 3
  /\ curr_[1] > 0
  /\ \E k \in 1 .. Len(Out(1)) :
        Out(1)[k].op = "write" /\ Len(Out(1)[k].bytes) = len_
  /\ \E k \in 1 .. Len(Out(1)) : IsBypass(Out(1)[k])
  /\ SinkBytes(Out(1)) \o Held(1) = Input(1)

(***************************************************************************)
(* An OStream or a BufferedOStream driven through write, flush and the     *)
(* formatting operators.                                                   *)
(***************************************************************************)
\* OStream::from_stdout() or BufferedOStream<size_>::from_stdout()
InitFmt ==
  /\ \E k \in {"OStream", "BufferedOStream"} :
       kind = [s \in Streams |-> IF s = 1 THEN k ELSE "none"]
  /\ fd_ = [s \in Streams |-> IF s = 1 THEN "stdout" ELSE NoDevice]
  /\ buff_ = [s \in Streams |-> ZeroBuffer]
  /\ curr_ = [s \in Streams |-> begin_]
  /\ sink = [d \in Devices \cup {NoDevice} |-> <<>>]
  /\ aborted = FALSE
  /\ calls = <<>>
  /\ pre = [buff_ |-> [s \in Streams |-> ZeroBuffer],
            curr_ |-> [s \in Streams |-> begin_],
            sink |-> [d \in Devices \cup {NoDevice} |-> <<>>]]
  /\ NoCallers /\ NoFailures /\ NoMaybes

SpecFmt == InitFmt /\ [][NextOps]_vars

\* the bytes the call c is expected to hand to write, with the texts of the
\* values in SomeChars, SomeInts and SomeAddresses written out
Expected(c) ==
  CASE c.op \in {"write", "<<str"} -> c.arg
    [] c.op = "<<Endl" -> <<10>>
    [] c.op = "<<char" -> IF c.arg = <<0>> THEN <<>> ELSE c.arg
    [] c.op = "<<int" /\ c.arg = <<-42>> -> <<45, 52, 50>>
    [] c.op = "<<int" /\ c.arg = <<0>> -> <<48>>
    [] c.op = "<<ptr" /\ c.arg = <<171>> -> <<97, 98>>
    [] OTHER -> <<>>

RECURSIVE AllExpected(_)
AllExpected(cs) ==
  IF cs = <<>> THEN <<>> ELSE Expected(Head(cs)) \o AllExpected(Tail(cs))

\* C12: << Endl hands exactly one newline byte to write and then calls
\* flush(): on an OStream the Sink gets a write of that byte and then a
\* synchronize request; on a BufferedOStream the cursor is 0 afterwards and
\* the Sink holds every byte written before followed by one newline byte,
\* its last request being the synchronize request of the flush.
C12_EndlWritesNewlineThenFlushes ==
  (calls # <<>> /\ Last.op = "<<Endl") =>
     /\ ~aborted
     /\ curr_[1] = 0
     /\ SinkBytes(Out(1)) = SinkBytes(PreOut(1)) \o PreHeld(1) \o <<10>>
     /\ SinkBytes(Out(1)) = AllExpected(calls)
     /\ Out(1)[Len(Out(1))] = SyncReq
     /\ Syncs(Out(1)) = Syncs(PreOut(1)) + Last.flushes
     /\ kind[1] = "OStream" =>
          Out(1) = PreOut(1) \o <<WriteReq(<<10>>), SyncReq>>
     /\ (kind[1] = "BufferedOStream" /\ pre.curr_[1] < len_) =>
          Out(1) = PreOut(1) \o <<WriteReq(PreHeld(1) \o <<10>>), SyncReq>>
     /\ (kind[1] = "BufferedOStream" /\ pre.curr_[1] = len_) =>
          Out(1) = PreOut(1) \o <<WriteReq(PreHeld(1)), SyncReq,
                                  WriteReq(<<10>>), SyncReq>>

C12_Witness ==
  /\ calls # <<>> /\ Last.op = "<<Endl"
  /\ kind[1] = "BufferedOStream"
  /\ pre.curr_[1] > 0
  /\ curr_[1] = 0
  /\ Len(SinkBytes(Out(1))) = Len(SinkBytes(PreOut(1))) + pre.curr_[1] + 1
  /\ SinkBytes(Out(1))[Len(SinkBytes(Out(1)))] = 10

(***************************************************************************)
(* Conversion of integers and pointers: one << on a fresh stream, for      *)
(* every value of a range.                                                 *)
(***************************************************************************)
\* stream << v on a fresh stream, v an int
ConvInt(s) ==
  /\ CanCall(s) /\ calls = <<>>
  /\ \E v \in (0 - IntBound) .. IntBound :
       Return(s, "<<int", <<v>>, put_IntOrFloat(kind[s], This(s), v))

\* stream << p on a fresh stream, p a pointer to a non-character type
ConvPointer(s) ==
  /\ CanCall(s) /\ calls = <<>>
  /\ \E a \in 0 .. AddrBound :
       Return(s, "<<ptr", <<a>>, put_Pointer(kind[s], This(s), a))

NextConv == ConvInt(1) \/ ConvPointer(1)

SpecConv == InitFmt /\ [][NextConv]_vars

\* the value of an ASCII digit, -1 for any other byte; hexadecimal digits
\* are lowercase
DigitValue(c, base) ==
  IF c >= 48 /\ c <= 57 /\ c - 48 < base THEN c - 48
  ELSE IF base = 16 /\ c >= 97 /\ c <= 102 THEN c - 87
  ELSE -1

\* the number a sequence of digits denotes
RECURSIVE Denotes(_, _)
Denotes(d, base) ==
  IF d = <<>> THEN 0
  ELSE base * Denotes(SubSeq(d, 1, Len(d) - 1), base)
         + DigitValue(d[Len(d)], base)

\* d is the shortest digit string for n: digits only, no leading zero
IsMinimalDigits(d, n, base) ==
  /\ Len(d) >= 1
  /\ \A i \in 1 .. Len(d) : DigitValue(d[i], base) >= 0
  /\ Len(d) > 1 => d[1] # 48
  /\ Denotes(d, base) = n

IsDecimalText(b, v) ==
  IF v < 0
    THEN Len(b) >= 2 /\ b[1] = 45 /\ IsMinimalDigits(Tail(b), 0 - v, 10)
    ELSE IsMinimalDigits(b, v, 10)

\* the bytes the one call handed to write: the request an OStream passed
\* on, or what a BufferedOStream holds
Passed ==
  IF kind[1] = "OStream" THEN SinkBytes(Out(1)) ELSE Held(1)

\* C16: stream << v hands to write exactly the minimal decimal text of the
\* integer v ('-' first when negative, no leading zero, no padding, no
\* terminator), -42 giving "-42"; stream << p hands to write the lowercase
\* hexadecimal text of the address without prefix, 0xAB giving "ab"; a
\* failed conversion writes nothing.
C16_IntegerAndPointerText ==
  /\ (calls # <<>> /\ Last.op = "<<int") =>
        /\ ~aborted
        /\ IsDecimalText(Passed, Last.arg[1])
        /\ Last.arg[1] = -42 => Passed = <<45, 52, 50>>
        /\ kind[1] = "OStream" => Out(1) = <<WriteReq(Passed)>>
        /\ kind[1] = "BufferedOStream" => Out(1) = <<>>
        /\ ~to_chars(Last.arg[1], 10).ec => Passed = <<>>
  /\ (calls # <<>> /\ Last.op = "<<ptr") =>
        /\ ~aborted
        /\ IsMinimalDigits(Passed, Last.arg[1], 16)
        /\ Last.arg[1] = 171 => Passed = <<97, 98>>
        /\ kind[1] = "OStream" => Out(1) = <<WriteReq(Passed)>>
        /\ kind[1] = "BufferedOStream" => Out(1) = <<>>
        /\ ~to_chars(Last.arg[1], 16).ec => Passed = <<>>

C16_Witness ==
  /\ calls # <<>> /\ Last.op = "<<int" /\ Last.arg = <<-42>>
  /\ kind[1] = "OStream"
  /\ Out(1) = <<WriteReq(<<45, 52, 50>>)>>

(***************************************************************************)
(* The public surface beyond write and flush: to_buffer is a public        *)
(* member function and buff_ and curr_ are public data members.            *)
(***************************************************************************)
\* s.to_buffer(bytes) called by the user
ToBuffer(s) ==
  /\ CanCall(s)
  /\ \E n \in FewSizes :
       Return(s, "to_buffer", Payload(n), to_buffer(This(s), Payload(n)))

\* s.curr_ = c assigned by the user
Poke(s) ==
  /\ CanCall(s)
  /\ \E c \in {0, len_, len_ + 1} :
       Return(s, "poke", <<c>>, [This(s) EXCEPT !.curr_ = c])

NextPublic == Write(1, FewSizes) \/ Flush(1) \/ ToBuffer(1) \/ Poke(1)

SpecPublic == Init /\ [][NextPublic]_vars

\* the calls so far are calls of write and flush only
OnlyWriteAndFlush ==
  \A i \in 1 .. Len(calls) : calls[i].op \in {"write", "flush"}

\* stream s as the last call found it
PreThis(s) ==
  [buff_ |-> pre.buff_[s], curr_ |-> pre.curr_[s], out |-> pre.sink[fd_[s]],
   ok |-> TRUE]

\* C18: no sequence of write and flush calls on a fresh BufferedOStream
\* trips an assertion: an abort has a direct to_buffer call or an assignment
\* to curr_ before it; when write calls to_buffer, curr_ <= N and the payload
\* size is non-zero and at most N - curr_; when flush runs, curr_ <= N.
C18_AssertionsHold ==
  /\ aborted => ~OnlyWriteAndFlush
  /\ (calls # <<>> /\ OnlyWriteAndFlush) =>
        /\ pre.curr_[1] <= len_
        /\ (IsWrite(Last, 1) /\ Len(Last.arg) \in 1 .. len_) =>
              LET mid == IF SizeLess(SizeSub(SizeT(len_), SizeT(pre.curr_[1])),
                                         SizeT(Len(Last.arg)))
                           THEN flush(PreThis(1)) ELSE PreThis(1)
              IN  /\ mid.ok
                  /\ mid.curr_ <= len_
                  /\ Len(Last.arg) # 0
                  /\ Len(Last.arg) <= len_ - mid.curr_
                  /\ curr_[1] = mid.curr_ + Len(Last.arg)

C18_Witness ==
  /\ Len(calls) >= 3 /\ OnlyWriteAndFlush
  /\ ~aborted
  /\ IsWrite(Last, 1) /\ Len(Last.arg) \in 1 .. len_
  /\ pre.curr_[1] = len_
  /\ Last.flushes = 1
  /\ curr_[1] = Len(Last.arg)

\* the abort is reached by a direct to_buffer call
C18_AbortByDirectCall ==
  /\ aborted
  /\ Last.op = "to_buffer"
  /\ \A i \in 1 .. Len(calls) - 1 : calls[i].op \in {"write", "flush"}

\* the abort is reached after an assignment to curr_
C18_AbortAfterPoke ==
  /\ aborted
  /\ Last.op \in {"write", "flush"}
  /\ \E i \in 1 .. Len(calls) - 1 : calls[i].op = "poke"
  /\ \A i \in 1 .. Len(calls) : calls[i].op # "to_buffer"

(***************************************************************************)
(* Two caller threads share stream 1 and guard every call with a mutex:    *)
(* lock, one call, unlock.                                                 *)
(***************************************************************************)
\* mutex.lock() by thread t
Acquire(t) ==
  /\ ~aborted /\ Len(calls) < MaxCalls
  /\ tpc[t] = "idle" /\ lock = 0
  /\ lock' = t
  /\ tpc' = [tpc EXCEPT ![t] = "locked"]
  /\ UNCHANGED <<kind, fd_, buff_, curr_, sink, aborted, calls, pre,
                 turns, failed, maybe, was>>

\* stream.write(bytes) by thread t, holding the mutex
LockedWrite(t) ==
  /\ tpc[t] = "locked" /\ lock = t /\ CanCall(1)
  /\ \E n \in FewSizes :
       Effect(1, "write", Payload(n), vwrite(kind[1], This(1), Payload(n)))
  /\ tpc' = [tpc EXCEPT ![t] = "called"]
  /\ turns' = Append(turns, t)
  /\ UNCHANGED <<lock, failed, maybe, was>>

\* stream.flush() by thread t, holding the mutex
LockedFlush(t) ==
  /\ tpc[t] = "locked" /\ lock = t /\ CanCall(1)
  /\ Effect(1, "flush", <<>>, vflush(kind[1], This(1)))
  /\ tpc' = [tpc EXCEPT ![t] = "called"]
  /\ turns' = Append(turns, t)
  /\ UNCHANGED <<lock, failed, maybe, was>>

\* mutex.unlock() by thread t
Release(t) ==
  /\ tpc[t] = "called" /\ lock = t
  /\ lock' = 0
  /\ tpc' = [tpc EXCEPT ![t] = "idle"]
  /\ UNCHANGED <<kind, fd_, buff_, curr_, sink, aborted, calls, pre,
                 turns, failed, maybe, was>>

NextMutex ==
  \E t \in Threads :
     Acquire(t) \/ LockedWrite(t) \/ LockedFlush(t) \/ Release(t)

SpecMutex == Init /\ [][NextMutex]_vars

\* sub occurs in seq as one contiguous run
Contains(seq, sub) ==
  \E k \in 0 .. Len(seq) - Len(sub) : SubSeq(seq, k + 1, k + Len(sub)) = sub

\* C14: with every write and flush on the shared stream made under the
\* mutex, in every interleaving of the two writers the cursor stays in
\* 0 .. N, the Sink bytes followed by the buffered bytes are the payloads in
\* the order of the calls, and the bytes of each write lie together, not
\* mixed with bytes of another write.
C14_MutexGuardedWriters ==
  /\ ~aborted
  /\ curr_[1] >= 0 /\ curr_[1] <= len_
  /\ SinkBytes(Out(1)) \o Held(1) = Input(1)
  /\ \A i \in 1 .. Len(calls) :
        IsWrite(calls[i], 1) =>
           Contains(SinkBytes(Out(1)) \o Held(1), calls[i].arg)
  /\ Len(turns) = Len(calls)
  /\ \A t \in Threads : tpc[t] # "idle" <=> lock = t

C14_Witness ==
  /\ Len(calls) = 4
  /\ turns = <<1, 2, 1, 2>>
  /\ \A i \in 1 .. 3 : IsWrite(calls[i], 1) /\ calls[i].arg # <<>>
  /\ Len(calls[3].arg) > len_
  /\ calls[4].op = "flush"
  /\ SinkBytes(Out(1)) = calls[1].arg \o calls[2].arg \o calls[3].arg

(***************************************************************************)
(* Sink requests that fail.  write and flush discard the result of         *)
(* fd_.write and fd_.flush_handle; a request that fails delivers nothing.  *)
(***************************************************************************)
\* whether the first, second and third Sink request of a call succeed
Plans == [1 .. 3 -> BOOLEAN]

\* stream s as a call sees it, with the outcomes of its Sink requests
ThisWithPlan(s, plan) ==
  [buff_ |-> buff_[s], curr_ |-> curr_[s], out |-> sink[fd_[s]], ok |-> TRUE,
   plan |-> plan, base |-> Len(sink[fd_[s]])]

\* the requests of the call that returned st which failed
NewFailures(st) ==
  {st.base + k : k \in {j \in 1 .. 3 : j <= Len(st.out) - st.base /\ ~st.plan[j]}}

FailingCall(s, op, arg, st) ==
  /\ Effect(s, op, arg, st)
  /\ failed' = [failed EXCEPT ![fd_[s]] = @ \cup NewFailures(st)]
  /\ UNCHANGED <<lock, tpc, turns, maybe, was>>

\* s.write(bytes) while Sink requests may fail
FailingWrite(s) ==
  /\ CanCall(s)
  /\ \E n \in FewSizes, plan \in Plans :
       FailingCall(s, "write", Payload(n),
                   vwrite(kind[s], ThisWithPlan(s, plan), Payload(n)))

\* s.flush() while Sink requests may fail
FailingFlush(s) ==
  /\ CanCall(s)
  /\ \E plan \in Plans :
       FailingCall(s, "flush", <<>>, vflush(kind[s], ThisWithPlan(s, plan)))

NextFail == FailingWrite(1) \/ FailingFlush(1)

SpecFail == Init /\ [][NextFail]_vars

\* the bytes of the requests of a log that succeeded
RECURSIVE DeliveredUpTo(_, _, _)
DeliveredUpTo(out, bad, n) ==
  IF n = 0 THEN <<>>
  ELSE DeliveredUpTo(out, bad, n - 1)
         \o (IF n \in bad THEN <<>> ELSE out[n].bytes)

Delivered(s) == DeliveredUpTo(Out(s), failed[fd_[s]], Len(Out(s)))

Occurs(b, seq) == \E i \in 1 .. Len(seq) : seq[i] = b

\* C15: whether or not its Sink write succeeds, flush() issues that write
\* once and leaves curr_ = 0; no call aborts, the cursor stays in 0 .. N and
\* the buffer keeps holding exactly the unflushed payloads; every byte is
\* requested of the Sink once, so the bytes of a failed write are not sent
\* again and never arrive.
C15_SinkFailureIgnored ==
  /\ ~aborted
  /\ curr_[1] >= 0 /\ curr_[1] <= len_
  /\ (calls # <<>> /\ Last.op = "flush") =>
        /\ curr_[1] = 0
        /\ Out(1) = PreOut(1) \o PreFlushReqs(1)
  /\ SinkBytes(Out(1)) \o Held(1) = Input(1)
  /\ Held(1) = Concat(SelectSeq(SinceFlush(calls, 1), LAMBDA p : Len(p) <= len_))
  /\ \A k \in failed[fd_[1]] :
        /\ k \in 1 .. Len(Out(1))
        /\ \A i \in 1 .. Len(Out(1)[k].bytes) :
              /\ ~Occurs(Out(1)[k].bytes[i], Delivered(1))
              /\ ~Occurs(Out(1)[k].bytes[i], Held(1))

C15_Witness ==
  /\ Len(calls) = 4
  /\ calls[2].op = "flush" /\ calls[4].op = "flush"
  /\ IsWrite(calls[1], 1) /\ IsWrite(calls[3], 1)
  /\ Len(calls[1].arg) = 1 /\ Len(calls[3].arg) = 1
  /\ failed[fd_[1]] = {1}
  /\ Out(1)[1] = WriteReq(calls[1].arg)
  /\ Delivered(1) = calls[3].arg
  /\ curr_[1] = 0

(***************************************************************************)
(* Maybe<T> (Core/Maybe.hpp), for T = int with the values 1 and 2 and for  *)
(* T = bool.                                                               *)
(***************************************************************************)
Values == {1, 2}
BoolValues == {0, 1}
TypeOf(m) == IF m \in {1, 2} THEN "int" ELSE "bool"
ValuesOf(m) == IF TypeOf(m) = "bool" THEN BoolValues ELSE Values
\* bool as 0 or 1
BoolInt(b) == IF b THEN 1 ELSE 0

\* ::new (&value_) T(x)
PlacementNew(o, x) == [o EXCEPT !.stored = TRUE, !.v = x]

\* value().~T()
DestroyValue(o) == [o EXCEPT !.stored = FALSE, !.v = 0]

\* value(): the assertion, and the stored value
Maybe_value(o) ==
  [o |-> o, ret |-> IF o.has_value_ THEN o.v ELSE 0, ok |-> o.has_value_]

\* release_value that leaves has_value_ set
Maybe_release_value_KeepsFlag(o) ==
  IF ~o.has_value_ THEN [o |-> o, ret |-> 0, ok |-> FALSE]
  ELSE [o |-> DestroyValue(o), ret |-> o.v, ok |-> TRUE]

Maybe_release_value(o) ==
  IF ~o.has_value_ THEN [o |-> o, ret |-> 0, ok |-> FALSE]
  ELSE [o |-> [DestroyValue(o) EXCEPT !.has_value_ = FALSE],
        ret |-> o.v, ok |-> TRUE]

\* std::move(m).value(): the assertion, then release_value()
Maybe_value_rvalue(o) ==
  IF ~o.has_value_ THEN [o |-> o, ret |-> 0, ok |-> FALSE]
  ELSE Maybe_release_value(o)

\* operator* and operator->: the assertion, then value()
Maybe_deref(o) ==
  IF ~o.has_value_ THEN [o |-> o, ret |-> 0, ok |-> FALSE]
  ELSE Maybe_value(o)

\* value_or(x)
Maybe_value_or(o, x) ==
  IF o.has_value_ THEN Maybe_value(o) ELSE [o |-> o, ret |-> x, ok |-> TRUE]

\* has_value() and explicit operator bool()
Maybe_has_value(o) == o.has_value_

Maybe_clear(o) ==
  IF o.has_value_
    THEN [DestroyValue(o) EXCEPT !.has_value_ = FALSE]
    ELSE [o EXCEPT !.has_value_ = FALSE]

\* emplace(x)
Maybe_emplace(o, x) ==
  [PlacementNew(Maybe_clear(o), x) EXCEPT !.has_value_ = TRUE]

\* operator=(Maybe&& other); self tells whether &other == this
Maybe_move_assign(this, other, self) ==
  IF self THEN [this |-> this, other |-> other, ok |-> TRUE]
  ELSE LET c == Maybe_clear(this)
       IN  IF other.has_value_
             THEN LET r == Maybe_release_value(other)
                  IN  [this |-> PlacementNew([c EXCEPT !.has_value_ = TRUE], r.ret),
                       other |-> r.o, ok |-> r.ok]
             ELSE [this |-> c, other |-> other, ok |-> TRUE]

\* operator=(const Maybe& other); self tells whether &other == this
Maybe_copy_assign(this, other, self) ==
  IF self THEN [this |-> this, other |-> other, ok |-> TRUE]
  ELSE LET c == Maybe_clear(this)
       IN  IF other.has_value_
             THEN LET r == Maybe_value(other)
                  IN  [this |-> PlacementNew([c EXCEPT !.has_value_ = TRUE], r.ret),
                       other |-> r.o, ok |-> r.ok]
             ELSE [this |-> c, other |-> other, ok |-> TRUE]

\* Maybe() = default: has_value_{false}
Maybe_default == [exists |-> TRUE, has_value_ |-> FALSE, stored |-> FALSE, v |-> 0]

\* Maybe(Args&&... args)
Maybe_from_value(x) == [PlacementNew(Maybe_default, x) EXCEPT !.has_value_ = TRUE]

\* Maybe(const Maybe& other)
Maybe_copy(other) ==
  IF ~other.has_value_
    THEN [this |-> Maybe_default, other |-> other, ok |-> TRUE]
    ELSE LET r == Maybe_value(other)
         IN  [this |-> [PlacementNew(Maybe_default, r.ret) EXCEPT !.has_value_ = TRUE],
              other |-> r.o, ok |-> r.ok]

\* Maybe<T> m{other} for an lvalue other.  For a non-const other the
\* constructor Maybe(Args&&...) with Args = Maybe& is the better match
\* wherever its constraint holds: T is constructible from Maybe<T>& when T
\* is bool, through explicit operator bool(), and the new object then holds
\* other.has_value_.  In every other case the copy constructor runs.
Maybe_from_lvalue(T, other, const) ==
  IF T = "bool" /\ ~const
    THEN [this |-> Maybe_from_value(BoolInt(Maybe_has_value(other))),
          other |-> other, ok |-> TRUE]
    ELSE Maybe_copy(other)

\* Maybe(const Nothing_&) {}
Maybe_from_nothing == Maybe_default

\* Maybe(Maybe&& other)
Maybe_move(other) ==
  IF ~other.has_value_
    THEN [this |-> Maybe_default, other |-> other, ok |-> TRUE]
    ELSE LET r == Maybe_release_value(other)
         IN  [this |-> [PlacementNew(Maybe_default, r.ret) EXCEPT !.has_value_ = TRUE],
              other |-> r.o, ok |-> r.ok]

\* ~Maybe()
Maybe_destroy(o) == [Maybe_clear(o) EXCEPT !.exists = FALSE]

\* no stream exists; the two Maybe objects are not constructed yet
InitMaybe ==
  /\ fd_ = [s \in Streams |-> NoDevice]
  /\ kind = [s \in Streams |-> "none"]
  /\ buff_ = [s \in Streams |-> ZeroBuffer]
  /\ curr_ = [s \in Streams |-> begin_]
  /\ sink = [d \in Devices \cup {NoDevice} |-> <<>>]
  /\ aborted = FALSE
  /\ calls = <<>>
  /\ pre = [buff_ |-> [s \in Streams |-> ZeroBuffer],
            curr_ |-> [s \in Streams |-> begin_],
            sink |-> [d \in Devices \cup {NoDevice} |-> <<>>]]
  /\ NoCallers /\ NoFailures /\ NoMaybes

\* the state after an operation on Maybe m that left m as a and Maybe n as
\* b, returned ret, and tripped an assertion unless ok; calls keeps the
\* last operation only
MaybeReturn(op, m, arg, n, a, b, ret, ok) ==
  /\ maybe' = IF ok THEN [maybe EXCEPT ![n] = b, ![m] = a] ELSE maybe
  /\ was' = [objs |-> maybe, ret |-> ret]
  /\ aborted' = ~ok
  /\ calls' = <<[op |-> op, s |-> m, arg |-> arg, flushes |-> 0, len |-> 0]>>
  /\ UNCHANGED <<kind, fd_, buff_, curr_, sink, pre, lock, tpc, turns, failed>>

\* the other Maybe of the same type
Other(m) == CHOOSE n \in Maybes : n # m /\ TypeOf(n) = TypeOf(m)

\* Maybe<T> m;
MaybeDefault(m) ==
  /\ ~aborted /\ ~maybe[m].exists
  /\ MaybeReturn("default", m, <<>>, m, Maybe_default, Maybe_default, 0, TRUE)

\* Maybe<T> m{x};
MaybeFromValue(m) ==
  /\ ~aborted /\ ~maybe[m].exists
  /\ \E x \in ValuesOf(m) :
       MaybeReturn("from_value", m, <<x>>, m,
                   Maybe_from_value(x), Maybe_from_value(x), 0, TRUE)

\* Maybe<T> m{Nothing};
MaybeFromNothing(m) ==
  /\ ~aborted /\ ~maybe[m].exists
  /\ MaybeReturn("from_nothing", m, <<>>, m,
                 Maybe_from_nothing, Maybe_from_nothing, 0, TRUE)

\* Maybe<T> m{n}; for n a const lvalue ("copy") or a non-const lvalue
\* ("copy_lvalue")
MaybeCopy(m) ==
  /\ ~aborted /\ ~maybe[m].exists /\ maybe[Other(m)].exists
  /\ \E const \in BOOLEAN :
       LET r == Maybe_from_lvalue(TypeOf(m), maybe[Other(m)], const)
       IN  MaybeReturn(IF const THEN "copy" ELSE "copy_lvalue", m,
                       <<Other(m)>>, Other(m), r.this, r.other, 0, r.ok)

\* Maybe<T> m{std::move(n)};
MaybeMove(m) ==
  /\ ~aborted /\ ~maybe[m].exists /\ maybe[Other(m)].exists
  /\ LET r == Maybe_move(maybe[Other(m)])
     IN  MaybeReturn("move", m, <<Other(m)>>, Other(m), r.this, r.other, 0, r.ok)

\* m goes out of scope
MaybeDestroy(m) ==
  /\ ~aborted /\ maybe[m].exists
  /\ MaybeReturn("destroy", m, <<>>, m,
                 Maybe_destroy(maybe[m]), Maybe_destroy(maybe[m]), 0, TRUE)

\* m.emplace(x)
MaybeEmplace(m) ==
  /\ ~aborted /\ maybe[m].exists
  /\ \E x \in ValuesOf(m) :
       MaybeReturn("emplace", m, <<x>>, m,
                   Maybe_emplace(maybe[m], x), Maybe_emplace(maybe[m], x), 0, TRUE)

\* m.clear()
MaybeClear(m) ==
  /\ ~aborted /\ maybe[m].exists
  /\ MaybeReturn("clear", m, <<>>, m,
                 Maybe_clear(maybe[m]), Maybe_clear(maybe[m]), 0, TRUE)

\* m.value()
MaybeValue(m) ==
  /\ ~aborted /\ maybe[m].exists
  /\ LET r == Maybe_value(maybe[m])
     IN  MaybeReturn("value", m, <<>>, m, r.o, r.o, r.ret, r.ok)

\* std::move(m).value()
MaybeValueRvalue(m) ==
  /\ ~aborted /\ maybe[m].exists
  /\ LET r == Maybe_value_rvalue(maybe[m])
     IN  MaybeReturn("value_rvalue", m, <<>>, m, r.o, r.o, r.ret, r.ok)

\* *m and m->
MaybeDeref(m) ==
  /\ ~aborted /\ maybe[m].exists
  /\ LET r == Maybe_deref(maybe[m])
     IN  MaybeReturn("deref", m, <<>>, m, r.o, r.o, r.ret, r.ok)

\* m.value_or(x)
MaybeValueOr(m) ==
  /\ ~aborted /\ maybe[m].exists
  /\ \E x \in ValuesOf(m) :
       LET r == Maybe_value_or(maybe[m], x)
       IN  MaybeReturn("value_or", m, <<x>>, m, r.o, r.o, r.ret, r.ok)

\* m.has_value() and bool(m)
MaybeHasValue(m) ==
  /\ ~aborted /\ maybe[m].exists
  /\ MaybeReturn("has_value", m, <<>>, m, maybe[m], maybe[m],
                 BoolInt(Maybe_has_value(maybe[m])), TRUE)

\* m.release_value()
MaybeReleaseValue(m) ==
  /\ ~aborted /\ maybe[m].exists
  /\ LET r == Maybe_release_value(maybe[m])
     IN  MaybeReturn("release_value", m, <<>>, m, r.o, r.o, r.ret, r.ok)

\* m = n; n may be m itself
MaybeCopyAssign(m) ==
  /\ ~aborted /\ maybe[m].exists
  /\ \E n \in {m, Other(m)} :
       /\ maybe[n].exists
       /\ LET r == Maybe_copy_assign(maybe[m], maybe[n], n = m)
          IN  MaybeReturn("copy_assign", m, <<n>>, n, r.this, r.other, 0, r.ok)

\* m = std::move(n); n may be m itself
MaybeMoveAssign(m) ==
  /\ ~aborted /\ maybe[m].exists
  /\ \E n \in {m, Other(m)} :
       /\ maybe[n].exists
       /\ LET r == Maybe_move_assign(maybe[m], maybe[n], n = m)
          IN  MaybeReturn("move_assign", m, <<n>>, n, r.this, r.other, 0, r.ok)

NextMaybe ==
  \E m \in Maybes :
     \/ MaybeDefault(m) \/ MaybeFromValue(m) \/ MaybeFromNothing(m)
     \/ MaybeCopy(m) \/ MaybeMove(m)
     \/ MaybeDestroy(m) \/ MaybeEmplace(m) \/ MaybeClear(m)
     \/ MaybeValue(m) \/ MaybeValueRvalue(m) \/ MaybeDeref(m)
     \/ MaybeValueOr(m) \/ MaybeHasValue(m) \/ MaybeReleaseValue(m)
     \/ MaybeCopyAssign(m) \/ MaybeMoveAssign(m)

SpecMaybe == InitMaybe /\ [][NextMaybe]_vars

\* the last operation had Maybe n # m as its source
FromOther == Last.arg # <<>> /\ Last.arg[1] # Last.s

\* C20: has_value_ is set exactly when a T is constructed in value_, after
\* any sequence of operations.  A move construction or move assignment from
\* a Maybe with a value gives the destination that value and leaves the
\* source empty; release_value leaves the Maybe empty; clear on an empty
\* Maybe and self-assignment change nothing; value, release_value and the
\* dereferencing operators on an empty Maybe trip the assertion, and nothing
\* else does.  value on an rvalue releases the value.  A copy leaves the
\* source as it was and gives the new Maybe the state of the source, except
\* that a Maybe<bool> constructed from a non-const lvalue holds the
\* has_value_ of the source as its value.
C20_MaybeHasValueIffStored ==
  /\ \A m \in Maybes :
        /\ maybe[m].exists => (maybe[m].has_value_ <=> maybe[m].stored)
        /\ ~maybe[m].exists => ~maybe[m].stored
        /\ maybe[m].stored => maybe[m].v \in ValuesOf(m)
  /\ calls # <<>> =>
        LET m == Last.s
            n == Other(Last.s)
        IN  /\ (Last.op \in {"move", "move_assign"} /\ FromOther
                /\ was.objs[n].has_value_) =>
                  /\ ~aborted
                  /\ maybe[m].has_value_ /\ maybe[m].v = was.objs[n].v
                  /\ ~maybe[n].has_value_ /\ maybe[n].exists
            /\ (Last.op = "copy_lvalue" /\ TypeOf(m) = "bool") =>
                  /\ ~aborted
                  /\ maybe[n] = was.objs[n]
                  /\ maybe[m].has_value_
                  /\ maybe[m].v = BoolInt(was.objs[n].has_value_)
            /\ (\/ Last.op \in {"copy", "copy_assign"} /\ FromOther
                \/ Last.op = "copy_lvalue" /\ TypeOf(m) = "int") =>
                  /\ ~aborted
                  /\ maybe[n] = was.objs[n]
                  /\ maybe[m].has_value_ = was.objs[n].has_value_
                  /\ maybe[m].v = was.objs[n].v
            /\ (Last.op \in {"move", "move_assign"} /\ FromOther
                /\ ~was.objs[n].has_value_) =>
                  ~aborted /\ ~maybe[m].has_value_ /\ maybe[n] = was.objs[n]
            /\ (Last.op \in {"release_value", "value_rvalue"}
                /\ was.objs[m].has_value_) =>
                  ~aborted /\ ~maybe[m].has_value_ /\ was.ret = was.objs[m].v
            /\ (Last.op \in {"value", "deref"} /\ was.objs[m].has_value_) =>
                  ~aborted /\ maybe = was.objs /\ was.ret = maybe[m].v
            /\ (Last.op = "clear" /\ ~was.objs[m].has_value_) =>
                  ~aborted /\ maybe = was.objs
            /\ Last.op = "clear" => ~maybe[m].has_value_
            /\ (Last.op \in {"copy_assign", "move_assign"} /\ ~FromOther) =>
                  ~aborted /\ maybe = was.objs
            /\ Last.op = "emplace" =>
                  maybe[m].has_value_ /\ maybe[m].v = Last.arg[1]
            /\ Last.op \in {"value_or", "has_value"} =>
                  /\ maybe = was.objs
                  /\ Last.op = "has_value" =>
                        was.ret = BoolInt(maybe[m].stored)
                  /\ Last.op = "value_or" =>
                        was.ret = IF maybe[m].stored THEN maybe[m].v
                                                     ELSE Last.arg[1]
            /\ aborted <=> /\ Last.op \in {"value", "value_rvalue",
                                            "release_value", "deref"}
                           /\ ~was.objs[m].has_value_

C20_Witness ==
  /\ calls # <<>> /\ Last.op = "move_assign" /\ FromOther
  /\ was.objs[Other(Last.s)].has_value_
  /\ was.objs[Last.s].has_value_
  /\ was.objs[Last.s].v # was.objs[Other(Last.s)].v
  /\ maybe[Last.s].v = was.objs[Other(Last.s)].v
  /\ ~maybe[Other(Last.s)].has_value_

====
